---- MODULE Spec2Model ----
(***************************************************************************)
(* Training engine of ml-playground: the optimizer's pause / resume / step *)
(* / stop state machine (BaseOptimizer), the gradient-descent loops built  *)
(* on it (BatchGD, MomentumGD, StochasticGD), and the worker that drives a *)
(* run and turns callback events into reports (Trainer, self.onmessage).   *)
(*                                                                         *)
(* The engine runs on one JavaScript event loop.  A step of the model is   *)
(* one continuation: the code between two awaits.  Worker messages are     *)
(* tasks, so they are handled only where the run awaits something that is  *)
(* not already settled: the pause timer, loss.data(), and the tensor reads *)
(* of the Trainer's callback listener.                                     *)
(***************************************************************************)
EXTENDS Integers, Sequences, FiniteSets, TLC

\* ---------------------------------------------------------------- bounds
MaxIterations == 3
MaxCommands == 3
MaxSamples == 2
\* codec inputs: longest 1-D array / widest row, most rows of a 2-D array
MaxCols == 2
MaxRows == 2
\* regularization inputs: weight rows and columns (classes) of theta
MaxWeights == 2
MaxClasses == 2
\* training runs started in one worker
MaxRuns == 2
\* workers the hook creates
MaxWorkers == 2

\* ------------------------------------------------------------- vocabulary
OptimizerTypes == {"batch", "momentum", "sgd"}
LossKinds == {"ok", "belowTolerance", "nan"}
ControlCommands == {"stop", "pause", "resume", "step"}
TrainCommands == {"train", "train-step"}

\* Positions of one optimize() call.
\*   init      optimize() not called yet
\*   check     iterator(): top of the for loop
\*   wait      iterator(): inside the while, the 100 ms timer is pending
\*   body      iterator() has yielded `iteration`, loop body not run yet
\*   lossData  theta updated, awaiting loss.data()
\*   cbAwait   callback listener of the Trainer awaiting its tensor reads
\*   afterCb   emit('callback') settled, NaN / tolerance checks not run yet
\*   returned  optimize() resolved
\*   rejected  optimize() rejected (an error was thrown in the loop)
\*   finished  Trainer.train ran its epilogue and sent `finished`
MacrotaskPoints == {"init", "wait", "lossData", "cbAwait", "rejected", "finished"}

VARIABLES
    \* BaseOptimizer
    isPaused, isStopped, stepRequested, maxIterations,
    \* StochasticGD / data
    optimizerType, batchSize, sampleCount,
    \* optimize() activation
    pc, iteration, lossValue, thetaUpdates,
    \* Trainer and worker
    listening, byStep, trainerModel, lossHistoryArray, iterations, mailbox, sent,
    \* StochasticGD: the index pool, its read pointer, the indices of the
    \* batch drawn last
    batchIndexPool, batchPoolPointer, batch,
    \* history (not program state)
    begun, callbacks, calls, ctl, lastCall, lastCallSuspended, beginsSinceCall,
    stepSinceBegin, steppedIteration, nextMsgNo, lastHandledNo,
    \* history: a step() was called while Paused since the last iteration began
    stepWhilePaused,
    \* history: since the latest command other than step, the step commands
    \* received with the loop suspended in Paused, the iterations begun, and
    \* whether nothing else asked for an iteration (no step received
    \* elsewhere, no request pending at that command)
    stepTally,
    \* history of the pool: refills made, batches drawn since the last one
    refills, drawn,
    \* report codec: the object, the buffer on the channel, decode's outcome,
    \* the position of the exchange, and what happened to the buffer (history)
    data, encodedData, decodedObject, codecPc, damage,
    \* L2Regularization: lambda, the theta handed in, the results of compute
    \* and gradient, which of them are current, and the first penalty computed
    \* (history)
    regLambda, regTheta, regPenalty, regGradient, regCalls, regFirstPenalty,
    \* BaseEstimator.theta, and the latest predict / evaluate call (history)
    modelTheta, query,
    \* optimize(): its parameters and hyperparameters, its locals theta (optTheta) and
    \* velocity, and per iteration the gradient, velocity and theta (history)
    learningRate, beta, initTheta, gradientFunction,
    optTheta, velocity, gradients, velocities, thetas,
    \* LearningRate.p (learningRate is its lambda), and the learning rate of
    \* every iteration (history)
    decayP, alfas,
    \* a second BatchGD on the same inputs: its theta, and theta per iteration
    opt2Theta, opt2Thetas,
    \* ModelPipeline._cachedProcessedData, computations per buffer, disposed
    cachedProcessedData, computed, disposed,
    \* history: the dispose() calls made on the model
    disposals,
    \* the callback listener's local `thetas`, and the theta of every report
    \* sent (history)
    listenerThetas, reportedThetas,
    \* a worker given several train commands: Trainer.model (the set holding
    \* the run whose model it is, empty for null), the runs, and the stop
    \* commands handled (history)
    model, runs, stopsHandled,
    \* OneVsRestLogisticRegressor.train: the optimize() calls in progress on
    \* the one optimizer, whether the Trainer listens, and history: control
    \* calls made, the call that wrote the pool last, whether a call read
    \* pool state written by another, whether the latest control call was a
    \* step() made with every call suspended, iterations begun per call
    \* since then, and the threadIds of the callback events
    threads, ovrListening, ovrCalls, poolWriter, foreignRead, stepAll, sinceStep,
    callbackIds,
    \* useModel: the training status of the store, workerRef.current (the set
    \* holding the worker, empty for null), the workers created, and the calls
    \* made of the hook's functions (history)
    trainingStatus, workerRef, workers, hookCalls

optVars == <<isPaused, isStopped, stepRequested>>
cfgVars == <<maxIterations, optimizerType, batchSize, sampleCount>>
runVars == <<pc, iteration, lossValue, thetaUpdates>>
trainerVars == <<listening, byStep, trainerModel, lossHistoryArray, iterations>>
histCallVars == <<calls, ctl, lastCall, lastCallSuspended>>
histRunVars == <<begun, steppedIteration, beginsSinceCall, stepSinceBegin,
                 stepWhilePaused, stepTally>>
msgVars == <<mailbox, nextMsgNo, lastHandledNo>>
poolVars == <<batchIndexPool, batchPoolPointer, batch, refills, drawn>>
\* State that the control flow of a run never touches outside the loop body.
codecVars == <<data, encodedData, decodedObject, codecPc, damage>>
\* The pure components, which a training run does not touch.
regVars == <<regLambda, regTheta, regPenalty, regGradient, regCalls, regFirstPenalty>>
\* The Trainer with several runs.
runsVars == <<model, runs, stopsHandled>>
\* Components studied on their own, apart from the single training run.
\* The optimize() calls of a one-vs-rest model.
ovrVars == <<threads, ovrListening, ovrCalls, poolWriter, foreignRead, stepAll,
             sinceStep, callbackIds>>
\* The hook of the user interface and its workers.
hookVars == <<trainingStatus, workerRef, workers, hookCalls>>
standaloneVars == <<runsVars, ovrVars, hookVars>>
pureVars == <<codecVars, regVars, standaloneVars>>
estimatorVars == <<modelTheta, query>>
hyperVars == <<learningRate, beta, initTheta, gradientFunction, decayP>>
reportVars == <<listenerThetas, reportedThetas>>
descentVars == <<optTheta, velocity, gradients, velocities, thetas, alfas>>
opt2Vars == <<opt2Theta, opt2Thetas>>
\* ModelPipeline: the keys of _cachedProcessedData with what each entry holds,
\* the computations per buffer since construction or the last dispose(),
\* and whether dispose() has been called (history).
pipelineVars == <<cachedProcessedData, computed, disposed, disposals>>
optimizerSideVars == <<poolVars, pureVars, estimatorVars, hyperVars, reportVars, descentVars,
                       opt2Vars>>
sideVars == <<optimizerSideVars, pipelineVars>>
vars == <<optVars, cfgVars, runVars, trainerVars, sent, callbacks, histCallVars,
          histRunVars, msgVars, sideVars>>

Range(s) == {s[i] : i \in 1..Len(s)}
Iota(n) == [i \in 1..n |-> i - 1]

\* Event sent to the caller through send() of the worker.
Event(type, iter, counter, histLen) ==
    [type |-> type, iteration |-> iter, counter |-> counter, histLen |-> histLen]

\* ------------------------------------------------------ BaseOptimizer API
\* The history variables record the call and what the documented state
\* machine (Running -> Paused <-> Running -> Stopped) makes of it.
CtlAfter(name) ==
    CASE ctl = "stopped" -> "stopped"
      [] name = "stop" -> "stopped"
      [] name = "pause" -> "paused"
      [] name = "resume" -> "running"
      [] OTHER -> ctl

RecordCall(name) ==
    /\ calls' = calls + 1
    /\ lastCall' = name
    /\ lastCallSuspended' = (pc = "wait" /\ ctl = "paused")
    /\ beginsSinceCall' = 0
    /\ stepSinceBegin' = (stepSinceBegin \/ name = "step")
    /\ stepWhilePaused' = (stepWhilePaused \/ (name = "step" /\ ctl = "paused"))
    /\ stepTally' = IF name # "step"
                    THEN [received |-> 0, begun |-> 0, only |-> ~stepRequested]
                    ELSE IF pc = "wait" /\ ctl = "paused"
                    THEN [stepTally EXCEPT !.received = @ + 1]
                    ELSE [stepTally EXCEPT !.only = FALSE]
    /\ UNCHANGED <<begun, steppedIteration>>
    /\ ctl' = CtlAfter(name)

\* stop() that forgets to set isStopped.
MutStopKeepsRunning ==
    /\ isPaused' = FALSE
    /\ UNCHANGED <<isStopped, stepRequested>>

\* stop() that leaves isPaused as it is.
MutStopLeavesPaused ==
    /\ isStopped' = TRUE
    /\ UNCHANGED <<isPaused, stepRequested>>

stop ==
    /\ isPaused' = FALSE
    /\ isStopped' = TRUE
    /\ UNCHANGED stepRequested

pause ==
    /\ isPaused' = TRUE
    /\ UNCHANGED <<isStopped, stepRequested>>

resume ==
    /\ isPaused' = FALSE
    /\ UNCHANGED <<isStopped, stepRequested>>

step ==
    /\ stepRequested' = TRUE
    /\ UNCHANGED <<isPaused, isStopped>>

Api(name) ==
    CASE name = "stop" -> stop
      [] name = "pause" -> pause
      [] name = "resume" -> resume
      [] OTHER -> step

\* --------------------------------------------------- BaseOptimizer.iterator
\* The generator from its while loop on: wait while paused and no step is
\* requested, end when stopped, otherwise consume the step request and yield.
\* The while loop written as an if: one timer wait, then go on.
MutWaitOnce ==
    IF pc = "check" /\ isPaused /\ ~stepRequested
    THEN /\ pc' = "wait"
         /\ UNCHANGED <<optVars, histRunVars>>
    ELSE IF isStopped
    THEN /\ pc' = "returned"
         /\ UNCHANGED <<optVars, histRunVars>>
    ELSE /\ stepRequested' = FALSE
         /\ pc' = "body"
         /\ begun' = Append(begun, iteration)
         /\ steppedIteration' = isPaused
         /\ beginsSinceCall' = beginsSinceCall + 1
         /\ stepSinceBegin' = FALSE
         /\ stepWhilePaused' = FALSE
         /\ stepTally' = [stepTally EXCEPT !.begun = @ + 1]
         /\ UNCHANGED <<isPaused, isStopped>>

\* The step request is never cleared.
MutKeepsStepRequest ==
    IF isPaused /\ ~stepRequested
    THEN /\ pc' = "wait"
         /\ UNCHANGED <<optVars, histRunVars>>
    ELSE IF isStopped
    THEN /\ pc' = "returned"
         /\ UNCHANGED <<optVars, histRunVars>>
    ELSE /\ pc' = "body"
         /\ begun' = Append(begun, iteration)
         /\ steppedIteration' = isPaused
         /\ beginsSinceCall' = beginsSinceCall + 1
         /\ stepSinceBegin' = FALSE
         /\ stepWhilePaused' = FALSE
         /\ stepTally' = [stepTally EXCEPT !.begun = @ + 1]
         /\ UNCHANGED <<isPaused, isStopped, stepRequested>>

WhileCheck ==
    IF isPaused /\ ~stepRequested
    THEN /\ pc' = "wait"
         /\ UNCHANGED <<optVars, histRunVars>>
    ELSE IF isStopped
    THEN /\ pc' = "returned"
         /\ UNCHANGED <<optVars, histRunVars>>
    ELSE /\ stepRequested' = FALSE
         /\ pc' = "body"
         /\ begun' = Append(begun, iteration)
         /\ steppedIteration' = isPaused
         /\ beginsSinceCall' = beginsSinceCall + 1
         /\ stepSinceBegin' = FALSE
         /\ stepWhilePaused' = FALSE
         /\ stepTally' = [stepTally EXCEPT !.begun = @ + 1]
         /\ UNCHANGED <<isPaused, isStopped>>

\* The loop bound off by one.
MutOneIterationMore ==
    /\ pc = "check"
    /\ IF iteration <= maxIterations
       THEN WhileCheck
       ELSE /\ pc' = "returned"
            /\ UNCHANGED <<optVars, histRunVars>>
    /\ UNCHANGED <<cfgVars, iteration, lossValue, thetaUpdates, trainerVars, sent,
                   callbacks, histCallVars, msgVars>>
    /\ UNCHANGED sideVars

\* for (let iteration = 0; iteration < this.maxIterations; iteration++)
IteratorNext ==
    /\ pc = "check"
    /\ IF iteration < maxIterations
       THEN WhileCheck
       ELSE /\ pc' = "returned"
            /\ UNCHANGED <<optVars, histRunVars>>
    /\ UNCHANGED <<cfgVars, iteration, lossValue, thetaUpdates, trainerVars, sent,
                   callbacks, histCallVars, msgVars>>
    /\ UNCHANGED sideVars

\* A poll that counts the wait as an iteration.
MutPollAdvances ==
    /\ pc = "wait"
    /\ WhileCheck
    /\ iteration' = IF pc' = "body" THEN iteration + 1 ELSE iteration
    /\ UNCHANGED <<cfgVars, lossValue, thetaUpdates, trainerVars, sent,
                   callbacks, histCallVars, msgVars>>
    /\ UNCHANGED sideVars

\* The 100 ms timer of the while loop fires and the condition is read again.
PausedPoll ==
    /\ pc = "wait"
    /\ WhileCheck
    /\ UNCHANGED <<cfgVars, iteration, lossValue, thetaUpdates, trainerVars, sent,
                   callbacks, histCallVars, msgVars>>
    /\ UNCHANGED sideVars

\* ------------------------------------------- StochasticGD: the index pool
\* utils.range(n): the indices 0 .. n-1 in order.
range(n) == [i \in 1..n |-> i - 1]

\* slice(from, to) of Array and of Float32Array, positions counted from 0:
\* a negative position counts from the end, positions are clamped to
\* 0 .. length, and the elements at from .. to-1 are taken, so a range
\* past the end yields fewer elements.
RelativeIndex(i, len) ==
    IF i < 0 THEN (IF len + i < 0 THEN 0 ELSE len + i)
             ELSE (IF i > len THEN len ELSE i)

slice(s, from, to) ==
    LET first == RelativeIndex(from, Len(s))
        last == RelativeIndex(to, Len(s))
    IN  [k \in 1..(IF last > first THEN last - first ELSE 0) |-> s[first + k]]

\* [pool[i], pool[j]] = [pool[j], pool[i]], positions counted from 0.
Swap(pool, i, j) == [pool EXCEPT ![i + 1] = pool[j + 1], ![j + 1] = pool[i + 1]]

\* The shuffle loop from position i down to 1; Math.random() picks any j in
\* 0 .. i.  The set of pools the loop can leave.
RECURSIVE FisherYates(_, _)
FisherYates(pool, i) ==
    IF i > 0
    THEN UNION {FisherYates(Swap(pool, i, j), i - 1) : j \in 0..i}
    ELSE {pool}

refillBatchPool(n) == FisherYates(range(n), n - 1)

\* A refill that is made only once, when the pool is still empty.
MutRefillOnlyWhenEmpty == Len(batchIndexPool) = 0

\* if (this.batchPoolPointer + batchSize > sampleCount || pool.length === 0)
NeedsRefill ==
    batchPoolPointer + batchSize > sampleCount \/ Len(batchIndexPool) = 0

\* createBatch after its assertion: refill if needed, take the slice at the
\* pointer, advance the pointer.
createBatch ==
    \E pool \in IF NeedsRefill THEN refillBatchPool(sampleCount)
                               ELSE {batchIndexPool} :
       LET pointer == IF NeedsRefill THEN 0 ELSE batchPoolPointer
           indicesSlice == slice(pool, pointer, pointer + batchSize)
       IN  /\ batchIndexPool' = pool
           /\ batch' = indicesSlice
           /\ batchPoolPointer' = pointer + batchSize
           /\ refills' = IF NeedsRefill THEN refills + 1 ELSE refills
           /\ drawn' = IF NeedsRefill THEN <<indicesSlice>>
                                      ELSE Append(drawn, indicesSlice)

\* ----------------------------------------------------- ModelPipeline
\* The tensors of a run, named as Trainer.train names them.  A tensor's id
\* is never given to another tensor.
Buffers == {"X", "y", "XTest", "yTest", "XPredictions"}

NoEntries == [id \in {} |-> "none"]
NeverComputed == [id \in Buffers |-> 0]

\* if (!this._cachedProcessedData.has(id)) { compute; set(id, processed) }
\* return this._cachedProcessedData.get(id).clone(), for features and labels
\* alike: a pipeline state is the cache and the computations made.
prepare(p, id, as) ==
    IF id \in DOMAIN p.cache
    THEN p
    ELSE [cache |-> (id :> as) @@ p.cache,
          computed |-> [p.computed EXCEPT ![id] = @ + 1]]

prepareFeatures(p, features) == prepare(p, features, "features")
prepareLabels(p, labels) == prepare(p, labels, "labels")

\* predict(X, theta) and evaluate(X, y, theta) / train(X, y), as far as the
\* cache goes.
predict(p, X) == prepareFeatures(p, X)
evaluate(p, X, y) == prepareLabels(prepareFeatures(p, X), y)

Pipeline == [cache |-> cachedProcessedData, computed |-> computed]

Becomes(p) ==
    /\ cachedProcessedData' = p.cache
    /\ computed' = p.computed
    /\ UNCHANGED <<disposed, disposals>>

\* ModelPipeline.train(X, y) up to `await this.model.train(X, y)`.
pipelineTrain(X, y) == Becomes(evaluate(Pipeline, X, y))

\* The Trainer's callback listener before its await: model.predict on the
\* prediction grid, model.evaluate on the training and on the test set.
callbackListenerCalls ==
    Becomes(evaluate(evaluate(predict(Pipeline, "XPredictions"), "X", "y"),
                     "XTest", "yTest"))

\* dispose(): dispose every cached tensor, clear the map.
dispose ==
    /\ cachedProcessedData' = NoEntries
    /\ computed' = NeverComputed
    /\ disposed' = TRUE
    /\ disposals' = disposals + 1

\* ------------------------------------------- optimize(): the arithmetic
\* Tensor elements of theta, velocity and gradient are numbers in units of
\* 1 / Unit, and the learning rate and beta are fractions with denominators
\* 1, 2 or 4, so that every product over MaxIterations iterations is exact.
RECURSIVE Pow(_, _)
Pow(b, n) == IF n = 0 THEN 1 ELSE b * Pow(b, n - 1)
Unit == Pow(4, MaxIterations)
Fraction(num, den) == [num |-> num, den |-> den]

\* tensor.mul(scalar)
Times(x, fraction) == (x * fraction.num) \div fraction.den

Abs(x) == IF x < 0 THEN 0 - x ELSE x

\* The label of sample i.
Label(i) == (i + 1) * Unit

RECURSIVE SumOver(_, _)
SumOver(rows, thetaNow) ==
    IF rows = <<>> THEN 0
    ELSE (thetaNow - Label(Head(rows))) + SumOver(Tail(rows), thetaNow)

\* gradientFunction(X, y, theta), a parameter of optimize(): a constant, as
\* in the optimizers' unit tests, or the gradient of the squared error of
\* a one-parameter model, summed over the rows handed in.
Gradient(fn, rows, thetaNow) ==
    IF fn.kind = "constant" THEN fn.c * Unit ELSE SumOver(rows, thetaNow)

\* theta.sub(gradient.mul(alfa))
DescentStep(thetaNow, gradient, alfa) == thetaNow - Times(gradient, alfa)

\* The velocity replaced by the step, without its momentum term.
MutNoMomentum(velocityNow, gradient, alfa) == 0 - Times(gradient, alfa)

\* velocity.mul(this.beta).sub(gradient.mul(alfa))
NextVelocity(velocityNow, gradient, alfa) ==
    Times(velocityNow, beta) - Times(gradient, alfa)

\* LearningRate.next(iteration): lambda * Math.pow(s0 / (s0 + iteration), p),
\* for p = 0 (no decay) and p = 1.
s0 == 1
next(iter) ==
    Fraction(learningRate.num * Pow(s0, decayP),
             learningRate.den * Pow(s0 + iter, decayP))

\* The initial theta drawn at random instead of copied.
MutRandomStart == {initTheta, initTheta + Unit}

\* const theta = variable(initTheta): the thetas optimize() can start from.
StartTheta == {initTheta}

\* optimize() before its loop: theta, and in MomentumGD the zero velocity.
StartDescent ==
    /\ optTheta' \in StartTheta
    /\ velocity' = 0
    /\ UNCHANGED <<gradients, velocities, thetas, alfas>>

\* The rows the gradient is computed on, and the update of the iteration.
Update(rows) ==
    LET alfa == next(iteration)
        gradient == Gradient(gradientFunction, rows, optTheta)
        nextVelocity == IF optimizerType = "momentum"
                        THEN NextVelocity(velocity, gradient, alfa)
                        ELSE velocity
        nextTheta == IF optimizerType = "momentum"
                     THEN optTheta + nextVelocity
                     ELSE DescentStep(optTheta, gradient, alfa)
    IN  /\ velocity' = nextVelocity
        /\ optTheta' = nextTheta
        /\ gradients' = Append(gradients, gradient)
        /\ velocities' = Append(velocities, nextVelocity)
        /\ alfas' = Append(alfas, alfa)
        /\ thetas' = Append(thetas, nextTheta)

\* ------------------------------------------- optimize(): the loop body
\* createBatch without its assertion.
MutEveryBatchFits == TRUE

\* StochasticGD.createBatch: assert(batchSize <= sampleCount, ...)
BatchFits == optimizerType # "sgd" \/ batchSize <= sampleCount

\* StochasticGD draws its batch first.  Then gradient, update of theta, loss
\* on the updated theta, and the loop awaits loss.data().  A batch that does
\* not fit throws before the pool is touched.
OptimizeBody ==
    /\ pc = "body"
    /\ IF BatchFits
       THEN /\ IF optimizerType = "sgd" THEN createBatch ELSE UNCHANGED poolVars
            /\ Update(IF optimizerType = "sgd" THEN batch' ELSE range(sampleCount))
            /\ thetaUpdates' = Append(thetaUpdates, iteration)
            /\ \E l \in LossKinds : lossValue' = l
            /\ pc' = "lossData"
       ELSE /\ pc' = "rejected"
            /\ UNCHANGED <<lossValue, thetaUpdates, poolVars, descentVars>>
    /\ UNCHANGED <<optVars, cfgVars, iteration, trainerVars, sent, callbacks,
                   histCallVars, histRunVars, msgVars, pureVars, estimatorVars,
                   hyperVars, reportVars, opt2Vars, pipelineVars>>

\* The snapshot keeps the values theta had at the first callback.
MutFirstSnapshot == thetas[1]

\* const thetas = concat(thetasArray.filter(Boolean), 1): thetasArray[0] is
\* the theta Variable of optimize(), so the new tensor has its present values.
listenerSnapshot == optTheta

\* await this.callback({threadId, iteration, theta, loss, alfa}): emit() calls
\* every listener; the Trainer's listener evaluates the model and awaits
\* the tensor reads.  Without a listener the emit settles at once.
EmitCallback ==
    /\ pc = "lossData"
    /\ callbacks' = Append(callbacks, iteration)
    /\ pc' = IF listening THEN "cbAwait" ELSE "afterCb"
    /\ IF listening
       THEN /\ callbackListenerCalls
            /\ listenerThetas' = listenerSnapshot
       ELSE UNCHANGED <<pipelineVars, listenerThetas>>
    /\ UNCHANGED <<optVars, cfgVars, iteration, lossValue, thetaUpdates, trainerVars,
                   sent, histCallVars, histRunVars, msgVars, reportedThetas>>
    /\ UNCHANGED <<poolVars, pureVars, estimatorVars, hyperVars, descentVars,
                   opt2Vars>>

\* The counter set to the iteration index instead of iteration + 1.
MutCounterIsIndex ==
    /\ pc = "cbAwait"
    /\ lossHistoryArray' = Append(lossHistoryArray, lossValue)
    /\ iterations' = iteration
    /\ sent' = Append(sent, Event("report", iteration, iteration,
                                  Len(lossHistoryArray) + 1))
    /\ IF byStep /\ iteration = 0
       THEN stop /\ RecordCall("stop")
       ELSE UNCHANGED <<optVars, histCallVars, histRunVars>>
    /\ pc' = "afterCb"
    /\ reportedThetas' = Append(reportedThetas, listenerThetas)
    /\ UNCHANGED <<cfgVars, iteration, lossValue, thetaUpdates, listening, byStep,
                   trainerModel, callbacks, msgVars, listenerThetas>>
    /\ UNCHANGED <<poolVars, pureVars, estimatorVars, hyperVars, descentVars,
                   opt2Vars, pipelineVars>>

\* Trainer.train, callback listener after its await: push the loss, set the
\* iteration counter, encode and send the report; a train-step run stops the
\* model after the first iteration.
CallbackListener ==
    /\ pc = "cbAwait"
    /\ lossHistoryArray' = Append(lossHistoryArray, lossValue)
    /\ iterations' = iteration + 1
    /\ sent' = Append(sent, Event("report", iteration, iteration + 1,
                                  Len(lossHistoryArray) + 1))
    /\ IF byStep /\ iteration = 0
       THEN stop /\ RecordCall("stop")
       ELSE UNCHANGED <<optVars, histCallVars, histRunVars>>
    /\ pc' = "afterCb"
    /\ reportedThetas' = Append(reportedThetas, listenerThetas)
    /\ UNCHANGED <<cfgVars, iteration, lossValue, thetaUpdates, listening, byStep,
                   trainerModel, callbacks, msgVars, listenerThetas>>
    /\ UNCHANGED <<poolVars, pureVars, estimatorVars, hyperVars, descentVars,
                   opt2Vars, pipelineVars>>

\* The loop without its NaN check.
MutIgnoresNaN ==
    /\ pc = "afterCb"
    /\ IF optimizerType # "sgd" /\ lossValue = "belowTolerance"
       THEN /\ pc' = "returned"
            /\ sent' = IF listening
                       THEN Append(sent, Event("info", iteration, -1, -1))
                       ELSE sent
            /\ UNCHANGED <<iteration, optVars, histCallVars, histRunVars>>
       ELSE /\ pc' = "check"
            /\ iteration' = iteration + 1
            /\ UNCHANGED <<sent, optVars, histCallVars, histRunVars>>
    /\ UNCHANGED <<cfgVars, lossValue, thetaUpdates, trainerVars, callbacks, msgVars>>
    /\ UNCHANGED sideVars

\* The tolerance check of BatchGD and MomentumGD applied to every optimizer.
MutToleranceStopsAll ==
    /\ pc = "afterCb"
    /\ IF lossValue = "nan"
       THEN /\ pc' = "returned"
            /\ IF listening
               THEN /\ sent' = Append(sent, Event("error", iteration, -1, -1))
                    /\ stop /\ RecordCall("stop")
               ELSE UNCHANGED <<sent, optVars, histCallVars, histRunVars>>
            /\ UNCHANGED iteration
       ELSE IF lossValue = "belowTolerance"
       THEN /\ pc' = "returned"
            /\ sent' = IF listening
                       THEN Append(sent, Event("info", iteration, -1, -1))
                       ELSE sent
            /\ UNCHANGED <<iteration, optVars, histCallVars, histRunVars>>
       ELSE /\ pc' = "check"
            /\ iteration' = iteration + 1
            /\ UNCHANGED <<sent, optVars, histCallVars, histRunVars>>
    /\ UNCHANGED <<cfgVars, lossValue, thetaUpdates, trainerVars, callbacks, msgVars>>
    /\ UNCHANGED sideVars

\* After the callback: a NaN loss emits `error` and breaks (the Trainer's
\* error listener forwards it and stops the model); a loss below the
\* tolerance emits `info` and breaks, except in StochasticGD; otherwise
\* the generator is resumed and increments iteration.
AfterCallback ==
    /\ pc = "afterCb"
    /\ IF lossValue = "nan"
       THEN /\ pc' = "returned"
            /\ IF listening
               THEN /\ sent' = Append(sent, Event("error", iteration, -1, -1))
                    /\ stop /\ RecordCall("stop")
               ELSE UNCHANGED <<sent, optVars, histCallVars, histRunVars>>
            /\ UNCHANGED iteration
       ELSE IF optimizerType # "sgd" /\ lossValue = "belowTolerance"
       THEN /\ pc' = "returned"
            /\ sent' = IF listening
                       THEN Append(sent, Event("info", iteration, -1, -1))
                       ELSE sent
            /\ UNCHANGED <<iteration, optVars, histCallVars, histRunVars>>
       ELSE /\ pc' = "check"
            /\ iteration' = iteration + 1
            /\ UNCHANGED <<sent, optVars, histCallVars, histRunVars>>
    /\ UNCHANGED <<cfgVars, lossValue, thetaUpdates, trainerVars, callbacks, msgVars>>
    /\ UNCHANGED sideVars

\* The model's train() after `await this.optimizer.optimize(...)` stores
\* theta; then Trainer.train after `await model.train(X, y)`: release the
\* buffers and the model, clear this.model, send `finished`.
TrainEpilogue ==
    /\ pc = "returned"
    /\ listening
    /\ modelTheta' = "theta"
    /\ trainerModel' = FALSE
    /\ sent' = Append(sent, Event("finished", -1, -1, -1))
    /\ pc' = "finished"
    /\ UNCHANGED <<optVars, cfgVars, iteration, lossValue, thetaUpdates, listening,
                   byStep, lossHistoryArray, iterations, callbacks, histCallVars,
                   histRunVars, msgVars>>
    /\ dispose
    /\ UNCHANGED <<poolVars, pureVars, query, hyperVars, reportVars, descentVars, opt2Vars>>

\* ------------------------------------------------ worker: self.onmessage
\* The caller posts a control command; the channel keeps the order.
PostMessage ==
    /\ nextMsgNo <= MaxCommands
    /\ \E c \in ControlCommands :
          mailbox' = Append(mailbox, [type |-> c, no |-> nextMsgNo])
    /\ nextMsgNo' = nextMsgNo + 1
    /\ UNCHANGED <<optVars, cfgVars, runVars, trainerVars, sent, callbacks,
                   histCallVars, histRunVars, lastHandledNo>>
    /\ UNCHANGED sideVars

\* A message task runs only while the run awaits a task (MacrotaskPoints).
Receive(types) ==
    /\ pc \in MacrotaskPoints
    /\ mailbox # <<>>
    /\ Head(mailbox).type \in types
    /\ mailbox' = Tail(mailbox)
    /\ lastHandledNo' = Head(mailbox).no
    /\ UNCHANGED nextMsgNo

\* case 'train' / 'train-step': trainer.train(...) up to optimize()'s loop.
OnMessageTrain ==
    /\ Receive(TrainCommands)
    /\ pc = "init"
    /\ trainerModel' = TRUE
    /\ listening' = TRUE
    /\ byStep' = (Head(mailbox).type = "train-step")
    /\ pc' = "check"
    /\ iteration' = 0
    /\ UNCHANGED <<optVars, cfgVars, lossValue, thetaUpdates, lossHistoryArray,
                   iterations, sent, callbacks, histCallVars, histRunVars>>
    /\ StartDescent
    /\ pipelineTrain("X", "y")
    /\ UNCHANGED <<poolVars, pureVars, estimatorVars, hyperVars, reportVars, opt2Vars>>

\* Trainer.stop / pause / resume / step: `this.model?.` makes each a no-op
\* when no model is set; stop also disposes the model and clears this.model.
TrainerControl(name) ==
    IF trainerModel
    THEN /\ Api(name)
         /\ RecordCall(name)
         /\ trainerModel' = (name # "stop")
    ELSE /\ ctl' = CtlAfter(name)
         /\ UNCHANGED <<optVars, calls, lastCall, lastCallSuspended, histRunVars,
                        trainerModel>>

OnMessageStop ==
    /\ Receive({"stop"})
    /\ TrainerControl("stop")
    /\ IF trainerModel THEN dispose ELSE UNCHANGED pipelineVars
    /\ UNCHANGED <<cfgVars, runVars, listening, byStep, lossHistoryArray, iterations,
                   sent, callbacks>>
    /\ UNCHANGED optimizerSideVars

OnMessagePause ==
    /\ Receive({"pause"})
    /\ TrainerControl("pause")
    /\ UNCHANGED <<cfgVars, runVars, listening, byStep, lossHistoryArray, iterations,
                   sent, callbacks>>
    /\ UNCHANGED sideVars

OnMessageResume ==
    /\ Receive({"resume"})
    /\ TrainerControl("resume")
    /\ UNCHANGED <<cfgVars, runVars, listening, byStep, lossHistoryArray, iterations,
                   sent, callbacks>>
    /\ UNCHANGED sideVars

OnMessageStep ==
    /\ Receive({"step"})
    /\ TrainerControl("step")
    /\ UNCHANGED <<cfgVars, runVars, listening, byStep, lossHistoryArray, iterations,
                   sent, callbacks>>
    /\ UNCHANGED sideVars

\* --------------------------------- the optimizer used through its own API
\* optimizer.optimize({...}) called by library code (as the unit tests do).
CallOptimize ==
    /\ pc = "init"
    /\ ~listening
    /\ mailbox = <<>>
    /\ pc' = "check"
    /\ iteration' = 0
    /\ UNCHANGED <<optVars, cfgVars, lossValue, thetaUpdates, trainerVars, sent,
                   callbacks, histCallVars, histRunVars, msgVars>>
    /\ StartDescent
    /\ UNCHANGED <<poolVars, pureVars, estimatorVars, hyperVars, reportVars, opt2Vars, pipelineVars>>

CallApi(name) ==
    /\ calls < MaxCommands
    /\ Api(name)
    /\ RecordCall(name)
    /\ UNCHANGED <<cfgVars, runVars, trainerVars, sent, callbacks, msgVars>>
    /\ UNCHANGED sideVars

CallStop == CallApi("stop")
CallPause == CallApi("pause")
CallResume == CallApi("resume")
CallStep == CallApi("step")

\* ------------------------------------------------ the model's own API
\* No predict / evaluate call yet.
NoQuery ==
    [op |-> "none", explicitTheta |-> FALSE, trained |-> FALSE,
     threw |-> FALSE, output |-> FALSE]

\* The assertion left out.
MutAssumesTrained(theta) == TRUE

\* assert(!!theta, 'Model has not been trained yet. Please call train() first.')
\* TRUE when the assertion passes.
assertThetaTrained(theta) == theta # "null"

\* model.train of a model used directly: `this.theta = await optimize(...)`.
TrainResolves ==
    /\ pc = "returned"
    /\ ~listening
    /\ modelTheta' = "theta"
    /\ pc' = "trained"
    /\ UNCHANGED <<optVars, cfgVars, iteration, lossValue, thetaUpdates, trainerVars,
                   sent, callbacks, histCallVars, histRunVars, msgVars, poolVars,
                   pureVars, query, hyperVars, reportVars, descentVars, opt2Vars, pipelineVars>>

\* predict(X, theta?) / evaluate(X, y, theta?): assertThetaTrained(theta ??
\* this.theta), then the hypothesis on that theta.
Query(op, explicitTheta) ==
    LET theta == IF explicitTheta THEN "theta" ELSE modelTheta
    IN  /\ ~listening
        /\ mailbox = <<>>
        /\ query' = [op |-> op, explicitTheta |-> explicitTheta,
                     trained |-> (pc = "trained"),
                     threw |-> ~assertThetaTrained(theta),
                     output |-> assertThetaTrained(theta)]
        /\ UNCHANGED <<optVars, cfgVars, runVars, trainerVars, sent, callbacks,
                       histCallVars, histRunVars, msgVars, poolVars, pureVars,
                       modelTheta, hyperVars, reportVars, descentVars, opt2Vars, pipelineVars>>

CallPredict == \E explicitTheta \in BOOLEAN : Query("predict", explicitTheta)
CallEvaluate == \E explicitTheta \in BOOLEAN : Query("evaluate", explicitTheta)

\* ------------------------------------------------------ float32 values
\* A tensor element: a finite number, +Infinity / -Infinity (inf = 1 / -1)
\* or NaN.  Finite numbers are integers; overflow and -0 are left out.
Fin(n) == [nan |-> FALSE, inf |-> 0, v |-> n]
Infinite(sign) == [nan |-> FALSE, inf |-> sign, v |-> 0]
NaN == [nan |-> TRUE, inf |-> 0, v |-> 0]
Sign(x) == IF x.inf # 0 THEN x.inf ELSE IF x.v > 0 THEN 1 ELSE IF x.v < 0 THEN -1 ELSE 0

\* a.mul(b): 0 times an infinity is NaN.
Mul(a, b) ==
    IF a.nan \/ b.nan THEN NaN
    ELSE IF a.inf # 0 \/ b.inf # 0
    THEN IF Sign(a) * Sign(b) = 0 THEN NaN ELSE Infinite(Sign(a) * Sign(b))
    ELSE Fin(a.v * b.v)

\* a.add(b): opposite infinities add up to NaN.
Add(a, b) ==
    IF a.nan \/ b.nan THEN NaN
    ELSE IF a.inf # 0 /\ b.inf # 0 THEN (IF a.inf = b.inf THEN a ELSE NaN)
    ELSE IF a.inf # 0 THEN a
    ELSE IF b.inf # 0 THEN b
    ELSE Fin(a.v + b.v)

\* x.mul(0.5); the finite numbers it is applied to are even.
Half(x) == IF x.nan \/ x.inf # 0 THEN x ELSE Fin(x.v \div 2)

\* t.sum() of a sequence of elements, and of a 2-D tensor.
RECURSIVE SumSeq(_)
SumSeq(elements) ==
    IF elements = <<>> THEN Fin(0) ELSE Add(Head(elements), SumSeq(Tail(elements)))

Sum2D(tensor) == SumSeq([i \in 1..Len(tensor) |-> SumSeq(tensor[i])])

\* ------------------------------------------------------ L2Regularization
\* compute(theta): 0.5 * lambda * sum(square(theta.slice([1, 0])))
L2Compute(lambda, theta) ==
    LET waight == Tail(theta)
        squared == [i \in 1..Len(waight) |->
                      [j \in 1..Len(waight[i]) |-> Mul(waight[i][j], waight[i][j])]]
    IN  Half(Mul(Fin(lambda), Sum2D(squared)))

\* gradient(theta): the mask [0; lambda; ...; lambda] times theta, element
\* by element.
L2Gradient(lambda, theta) ==
    LET rows == Len(theta)
        cols == Len(theta[1])
        lambdaMask == <<[j \in 1..cols |-> Fin(0)]>>
                        \o [i \in 1..(rows - 1) |-> [j \in 1..cols |-> Fin(lambda)]]
    IN  [i \in 1..rows |-> [j \in 1..cols |-> Mul(lambdaMask[i][j], theta[i][j])]]

\* ------------------------------------------------ report codec: values
\* A number, and the two array shapes encode tells apart by typeof value[0]
\* ("empty" is [], whose first element is undefined).  An object is the
\* sequence of its entries in insertion order, keys being sequences of
\* UTF-16 code units.
Num(n) == [kind |-> "number", v |-> n]
Arr(elements) ==
    [kind |-> IF elements = <<>> THEN "empty" ELSE "numbers", v |-> elements]
Arr2(rows) == [kind |-> IF rows = <<>> THEN "empty" ELSE "arrays", v |-> rows]
Undefined == [kind |-> "undefined", v |-> 0]
NoResult == [threw |-> FALSE, returned |-> FALSE, object |-> <<>>]
Threw == [threw |-> TRUE, returned |-> FALSE, object |-> <<>>]
Returned(object) == [threw |-> FALSE, returned |-> TRUE, object |-> object]

\* Math.fround on integers: exact up to 2^24, beyond it the nearest multiple
\* of the spacing of that binade, ties to the even significand.
RECURSIVE Spacing(_, _)
Spacing(a, u) == IF a < 16777216 * u THEN u ELSE Spacing(a, 2 * u)

Fround(x) ==
    LET a == IF x < 0 THEN 0 - x ELSE x
        u == Spacing(a, 1)
        lo == (a \div u) * u
        up == IF 2 * (a - lo) < u THEN FALSE
              ELSE IF 2 * (a - lo) > u THEN TRUE
              ELSE (lo \div u) % 2 = 1
        r == IF up THEN lo + u ELSE lo
    IN  IF x < 0 THEN 0 - r ELSE r

\* String.fromCharCode: the code unit is the number modulo 2^16.
ToUint16(n) == n % 65536

\* ------------------------------------------------ report codec: encode
\* Only the first row of a 2-D array is written.
MutFirstRowOnly(value) ==
    CASE value.kind = "number" -> <<value.v>>
      [] value.kind = "arrays" -> value.v[1]
      [] OTHER -> value.v

RECURSIVE flat(_)
flat(rows) == IF rows = <<>> THEN <<>> ELSE Head(rows) \o flat(Tail(rows))

flattenedValue(value) ==
    CASE value.kind = "number" -> <<value.v>>
      [] value.kind = "arrays" -> flat(value.v)
      [] OTHER -> value.v

\* <<valueCols, valueRows>>
valueDimensions(value) ==
    CASE value.kind = "number" -> <<-1, -1>>
      [] value.kind = "empty" -> <<0, -1>>
      [] value.kind = "numbers" -> <<Len(value.v), -1>>
      [] OTHER -> <<Len(value.v[1]), Len(value.v)>>

RECURSIVE allFlattenedEntryData(_)
allFlattenedEntryData(objectEntries) ==
    IF objectEntries = <<>>
    THEN <<>>
    ELSE LET entry == Head(objectEntries)
         IN  <<Len(entry.key)>> \o entry.key \o valueDimensions(entry.value)
               \o flattenedValue(entry.value)
               \o allFlattenedEntryData(Tail(objectEntries))

\* new Float32Array([numberOfEntries, ...allFlattenedEntryData])
encode(object) ==
    LET objectEntries == SelectSeq(object, LAMBDA e : e.value.kind # "undefined")
        numbers == <<Len(objectEntries)>> \o allFlattenedEntryData(objectEntries)
    IN  [k \in 1..Len(numbers) |-> Fround(numbers[k])]

\* ------------------------------------------------ report codec: decode
\* decodedObject[key] = value
SetProperty(object, key, value) ==
    IF \E k \in 1..Len(object) : object[k].key = key
    THEN [k \in 1..Len(object) |->
            IF object[k].key = key THEN [key |-> key, value |-> value]
                                   ELSE object[k]]
    ELSE Append(object, [key |-> key, value |-> value])

\* Array.from({length: valueRows}, (_, i) => rawData.slice(i*cols, (i+1)*cols))
Rows2D(rawData, valueCols, valueRows) ==
    [i \in 1..(IF valueRows > 0 THEN valueRows ELSE 0) |->
        slice(rawData, (i - 1) * valueCols, i * valueCols)]

\* The length check of the value data left out.
MutNeverTruncated(buffer, offset, expectedLength) == FALSE

\* if (offset + expectedLength > encodedData.length) throw ...
Truncated(buffer, offset, expectedLength) == offset + expectedLength > Len(buffer)

\* The for loop of decode with `left` entries to go; offset counts from 0.
\* A read at a negative offset yields undefined, which fails the key-length
\* test.
RECURSIVE decodeEntries(_, _, _, _)
decodeEntries(buffer, offset, left, object) ==
    IF left <= 0 THEN Returned(object)
    ELSE IF offset >= Len(buffer) \/ offset < 0 THEN Threw
    ELSE
    LET keyLength == buffer[offset + 1]
        keyAt == offset + 1
    IN
    IF keyLength < 0 \/ keyAt + keyLength > Len(buffer) THEN Threw
    ELSE
    LET keyBytes == slice(buffer, keyAt, keyAt + keyLength)
        key == [k \in 1..Len(keyBytes) |-> ToUint16(keyBytes[k])]
        dimsAt == keyAt + keyLength
    IN
    IF dimsAt + 2 > Len(buffer) THEN Threw
    ELSE
    LET valueCols == buffer[dimsAt + 1]
        valueRows == buffer[dimsAt + 2]
        at == dimsAt + 2
    IN
    IF valueCols = -1 /\ valueRows = -1
    THEN IF at >= Len(buffer)
         THEN Threw
         ELSE decodeEntries(buffer, at + 1, left - 1,
                            SetProperty(object, key, Num(buffer[at + 1])))
    ELSE IF valueCols # -1 /\ valueRows = -1
    THEN IF Truncated(buffer, at, valueCols)
         THEN Threw
         ELSE decodeEntries(buffer, at + valueCols, left - 1,
                 SetProperty(object, key, Arr(slice(buffer, at, at + valueCols))))
    ELSE IF valueCols # -1 /\ valueRows # -1
    THEN IF Truncated(buffer, at, valueCols * valueRows)
         THEN Threw
         ELSE decodeEntries(buffer, at + valueCols * valueRows, left - 1,
                 SetProperty(object, key,
                     Arr2(Rows2D(slice(buffer, at, at + valueCols * valueRows),
                                 valueCols, valueRows))))
    ELSE Threw

decode(buffer) ==
    IF Len(buffer) = 0 THEN Threw
    ELSE IF buffer[1] < 0 THEN Threw
    ELSE decodeEntries(buffer, 1, buffer[1], <<>>)

\* ------------------------------------------- Trainer: several runs
\* One worker has one Trainer, and the Trainer one `model` field.  Each
\* train command builds a model and an optimizer of its own (createModel)
\* and starts a run; the loop of a run is reduced to its suspension check
\* and the await of an iteration.
RunIds == 1..MaxRuns
NoRun == [pc |-> "none", isStopped |-> FALSE, iteration |-> 0]
NoRuns == [r \in RunIds |-> NoRun]
Started(r) == runs[r].pc # "none"
Live(r) == Started(r) /\ runs[r].pc # "finished"

\* A message task runs when no run has a continuation ready.
WorkerIdle == \A r \in RunIds : runs[r].pc \in {"none", "await", "finished"}

\* ------------------------------------------------------- useModel
\* A worker of the hook: whether it was created, its run, the messages
\* posted to it and not yet handled, and the flags of its optimizer.
WorkerIds == 1..MaxWorkers
NoWorker == [state |-> "none", inbox |-> <<>>, isPaused |-> FALSE,
             stepRequested |-> FALSE]
NoWorkers == [w \in WorkerIds |-> NoWorker]
\* A worker that exists and was not terminated.
LiveWorker(w) == workers[w].state \in {"created", "running", "stopping", "finished"}

\* ------------------------------------------------------- specifications
DEFAULT_BATCH_SIZE == 1

CodecAtRest ==
    /\ data = <<>> /\ encodedData = <<>> /\ decodedObject = NoResult
    /\ codecPc = "idle" /\ damage = "none"

RegAtRest ==
    /\ regLambda = 0 /\ regTheta = <<>> /\ regPenalty = Fin(0)
    /\ regGradient = <<>> /\ regCalls = {} /\ regFirstPenalty = <<>>

\* A Trainer that was given no train command.
RunsAtRest == model = {} /\ runs = NoRuns /\ stopsHandled = 0

\* No one-vs-rest model in training.
OvrAtRest ==
    /\ threads = <<>> /\ ovrListening = FALSE /\ ovrCalls = 0
    /\ poolWriter = {} /\ foreignRead = FALSE /\ stepAll = FALSE
    /\ sinceStep = <<>> /\ callbackIds = {}

\* The hook after its first render: no worker, status 'init'.
HookAtRest ==
    /\ trainingStatus = "init" /\ workerRef = {} /\ workers = NoWorkers
    /\ hookCalls = 0

StandaloneAtRest == RunsAtRest /\ OvrAtRest /\ HookAtRest

\* The pure components before use.
PureAtRest == CodecAtRest /\ RegAtRest /\ StandaloneAtRest

\* Optimizer, Trainer and worker after construction, before any call.
EngineConstructed ==
    /\ isPaused = FALSE /\ isStopped = FALSE /\ stepRequested = FALSE
    /\ pc = "init" /\ iteration = 0 /\ lossValue = "ok" /\ thetaUpdates = <<>>
    /\ listening = FALSE /\ byStep = FALSE /\ trainerModel = FALSE
    /\ lossHistoryArray = <<>> /\ iterations = 0 /\ sent = <<>>
    /\ begun = <<>> /\ callbacks = <<>> /\ calls = 0 /\ ctl = "running"
    /\ lastCall = "none" /\ lastCallSuspended = FALSE /\ beginsSinceCall = 0
    /\ stepSinceBegin = FALSE /\ steppedIteration = FALSE
    /\ stepWhilePaused = FALSE
    /\ stepTally = [received |-> 0, begun |-> 0, only |-> TRUE]
    /\ lastHandledNo = -1
    /\ batchIndexPool = <<>> /\ batchPoolPointer = 0 /\ batch = <<>>
    /\ refills = 0 /\ drawn = <<>>
    /\ modelTheta = "null" /\ query = NoQuery
    /\ optTheta = initTheta /\ velocity = 0
    /\ gradients = <<>> /\ velocities = <<>> /\ thetas = <<>> /\ alfas = <<>>
    /\ opt2Theta = initTheta /\ opt2Thetas = <<>>
    /\ cachedProcessedData = NoEntries /\ computed = NeverComputed
    /\ disposed = FALSE /\ disposals = 0
    /\ listenerThetas = 0 /\ reportedThetas = <<>>

\* One choice of the numeric inputs, for the runs studied for their control
\* flow: learning rate 1, beta 1/2, theta from 0, a constant gradient.
PlainDescent ==
    /\ learningRate = Fraction(1, 1) /\ beta = Fraction(1, 2)
    /\ initTheta = 0 /\ gradientFunction = [kind |-> "constant", c |-> 1]
    /\ decayP = 0

InitCommon ==
    /\ maxIterations \in 1..MaxIterations
    /\ optimizerType \in OptimizerTypes
    /\ sampleCount \in 1..MaxSamples
    /\ batchSize \in IF optimizerType = "sgd" THEN 1..(MaxSamples + 1)
                                               ELSE {DEFAULT_BATCH_SIZE}
    /\ PlainDescent
    /\ EngineConstructed
    /\ PureAtRest

\* No training run: one optimizer that is never started.
EngineAtRest ==
    /\ maxIterations = 1 /\ optimizerType = "batch" /\ sampleCount = 1
    /\ batchSize = DEFAULT_BATCH_SIZE
    /\ PlainDescent
    /\ EngineConstructed
    /\ mailbox = <<>> /\ nextMsgNo = 0

\* The single training run.
engineVarsOfRun == <<optVars, cfgVars, runVars, trainerVars, sent, callbacks,
                     histCallVars, histRunVars, msgVars, poolVars, estimatorVars,
                     hyperVars, reportVars, descentVars, opt2Vars, pipelineVars>>
engineVars == <<engineVarsOfRun, standaloneVars>>
outsideRuns == <<codecVars, regVars, engineVarsOfRun, ovrVars, hookVars>>
outsideHook == <<codecVars, regVars, engineVarsOfRun, ovrVars, runsVars>>

\* The worker: the caller's first message is the train command.
Init ==
    /\ InitCommon
    /\ \E t \in TrainCommands : mailbox = <<[type |-> t, no |-> 0]>>
    /\ nextMsgNo = 1

Loop ==
    \/ IteratorNext
    \/ PausedPoll
    \/ OptimizeBody
    \/ EmitCallback
    \/ CallbackListener
    \/ AfterCallback

Next ==
    \/ IteratorNext
    \/ PausedPoll
    \/ OptimizeBody
    \/ EmitCallback
    \/ CallbackListener
    \/ AfterCallback
    \/ TrainEpilogue
    \/ PostMessage
    \/ OnMessageTrain
    \/ OnMessageStop
    \/ OnMessagePause
    \/ OnMessageResume
    \/ OnMessageStep

Spec == Init /\ [][Next]_vars

\* The event loop runs every ready continuation and every queued message.
FairSpec ==
    /\ Spec
    /\ WF_vars(Loop \/ TrainEpilogue)
    /\ WF_vars(OnMessageTrain \/ OnMessageStop \/ OnMessagePause
                 \/ OnMessageResume \/ OnMessageStep)

\* The optimizer alone, driven through optimize / stop / pause / resume / step.
InitOptimizer ==
    /\ InitCommon
    /\ mailbox = <<>>
    /\ nextMsgNo = 0

NextOptimizer ==
    \/ CallOptimize
    \/ IteratorNext
    \/ PausedPoll
    \/ OptimizeBody
    \/ EmitCallback
    \/ AfterCallback
    \/ CallStop
    \/ CallPause
    \/ CallResume
    \/ CallStep

SpecOptimizer == InitOptimizer /\ [][NextOptimizer]_vars

FairSpecOptimizer ==
    /\ SpecOptimizer
    /\ WF_vars(CallOptimize \/ Loop)

\* A model used through train / predict / evaluate and the control calls.
NextEstimator ==
    \/ NextOptimizer
    \/ TrainResolves
    \/ CallPredict
    \/ CallEvaluate

SpecEstimator == InitOptimizer /\ [][NextEstimator]_vars

\* ------------------------------------------------- optimize(): descent
\* Learning rates and betas (beta lies strictly between 0 and 1), initial
\* thetas, and gradient functions: constant of either sign, or the residual
\* of a one-parameter model.
LearningRates == {Fraction(1, 1), Fraction(1, 2)}
Betas == {Fraction(1, 2), Fraction(1, 4)}
InitThetas == {0, Unit}
GradientFunctions ==
    {[kind |-> "constant", c |-> 1], [kind |-> "constant", c |-> -1],
     [kind |-> "residual", c |-> 0]}

\* opt2.optimize(...) after `await opt1.optimize(...)`: one iteration of a
\* second BatchGD on the same X, y, gradientFunction, initial theta and
\* learning rate.
SecondRunIteration ==
    /\ optimizerType = "batch"
    /\ pc = "returned"
    /\ Len(opt2Thetas) < maxIterations
    /\ \E start \in IF opt2Thetas = <<>> THEN StartTheta ELSE {opt2Theta} :
          LET gradient == Gradient(gradientFunction, range(sampleCount), start)
              nextTheta == DescentStep(start, gradient, next(Len(opt2Thetas)))
          IN  /\ opt2Theta' = nextTheta
              /\ opt2Thetas' = Append(opt2Thetas, nextTheta)
    /\ UNCHANGED <<optVars, cfgVars, runVars, trainerVars, sent, callbacks,
                   histCallVars, histRunVars, msgVars, poolVars, pureVars,
                   estimatorVars, hyperVars, reportVars, descentVars, pipelineVars>>

\* The optimizers run to their end on every choice of the numeric inputs.
InitDescent ==
    /\ maxIterations \in 1..MaxIterations
    /\ optimizerType \in OptimizerTypes
    /\ sampleCount \in 1..MaxSamples
    /\ batchSize \in IF optimizerType = "sgd" THEN 1..sampleCount
                                               ELSE {DEFAULT_BATCH_SIZE}
    /\ learningRate \in LearningRates
    /\ beta \in IF optimizerType = "momentum" THEN Betas ELSE {Fraction(1, 2)}
    /\ initTheta \in InitThetas
    /\ gradientFunction \in GradientFunctions
    /\ decayP = 0
    /\ EngineConstructed
    /\ PureAtRest
    /\ mailbox = <<>>
    /\ nextMsgNo = 0

NextDescent ==
    \/ CallOptimize
    \/ IteratorNext
    \/ OptimizeBody
    \/ EmitCallback
    \/ AfterCallback
    \/ SecondRunIteration

SpecDescent == InitDescent /\ [][NextDescent]_vars

\* --------------------------------- optimize() paused, stepped, resumed
\* BatchGD and MomentumGD on every choice of the numeric inputs and of the
\* learning-rate decay, driven through pause / resume / step.
InitInterrupted ==
    /\ maxIterations \in 1..MaxIterations
    /\ optimizerType \in {"batch", "momentum"}
    /\ sampleCount \in 1..MaxSamples
    /\ batchSize = DEFAULT_BATCH_SIZE
    /\ learningRate \in LearningRates
    /\ beta = Fraction(1, 2)
    /\ initTheta = 0
    /\ gradientFunction \in GradientFunctions
    /\ decayP \in {0, 1}
    /\ EngineConstructed
    /\ PureAtRest
    /\ mailbox = <<>>
    /\ nextMsgNo = 0

NextInterrupted ==
    \/ CallOptimize
    \/ IteratorNext
    \/ PausedPoll
    \/ OptimizeBody
    \/ EmitCallback
    \/ AfterCallback
    \/ CallPause
    \/ CallResume
    \/ CallStep

SpecInterrupted == InitInterrupted /\ [][NextInterrupted]_vars

\* ------------------------------------------------ report codec: exchange
\* Objects handed to encode: up to one entry per key; numbers that are and
\* that are not 32-bit floats, -1 (the shape sentinel) among them; arrays
\* whose elements differ by position.
Keys == {<<97>>, <<98, 99>>}
Scalars == {-1, 0, 5, 16777217}
Firsts == {-1, 3}
Vector(first, n) == [k \in 1..n |-> first + k - 1]
Matrix(first, r, c) == [i \in 1..r |-> [j \in 1..c |-> first + (i - 1) * c + j - 1]]
Values ==
    {Num(n) : n \in Scalars} \cup {Undefined}
      \cup {Arr(Vector(f, n)) : f \in Firsts, n \in 0..MaxCols}
      \cup {Arr2(Matrix(f, r, c)) : f \in Firsts, r \in 1..MaxRows, c \in 0..MaxCols}
Objects ==
    {<<>>} \cup {<<[key |-> k, value |-> v]>> : k \in Keys, v \in Values}
      \cup {o \in {<<[key |-> k1, value |-> v1], [key |-> k2, value |-> v2]>> :
                       k1 \in Keys, k2 \in Keys, v1 \in Values, v2 \in Values} :
              o[1].key # o[2].key}
\* Numbers a damaged buffer can hold in place of the original.
Garbage == {-2, -1, 0, 1, 4}

\* The worker calls send('report', encode(report)).
Encode ==
    /\ codecPc = "start"
    /\ encodedData' = encode(data)
    /\ codecPc' = "encoded"
    /\ UNCHANGED <<data, decodedObject, damage, engineVars, regVars>>

\* The buffer arrives cut short.
Truncate ==
    /\ codecPc = "encoded" /\ damage = "none"
    /\ \E n \in 0..(Len(encodedData) - 1) :
          encodedData' = SubSeq(encodedData, 1, n)
    /\ damage' = "truncated"
    /\ UNCHANGED <<data, decodedObject, codecPc, engineVars, regVars>>

\* The buffer arrives with one number replaced.
Corrupt ==
    /\ codecPc = "encoded" /\ damage = "none"
    /\ \E k \in 1..Len(encodedData), g \in Garbage :
          /\ g # encodedData[k]
          /\ encodedData' = [encodedData EXCEPT ![k] = g]
    /\ damage' = "corrupted"
    /\ UNCHANGED <<data, decodedObject, codecPc, engineVars, regVars>>

\* The receiver calls decode(event.data).
Decode ==
    /\ codecPc = "encoded"
    /\ decodedObject' = decode(encodedData)
    /\ codecPc' = "decoded"
    /\ UNCHANGED <<data, encodedData, damage, engineVars, regVars>>

InitCodec ==
    /\ EngineAtRest
    /\ RegAtRest
    /\ StandaloneAtRest
    /\ data \in Objects
    /\ encodedData = <<>> /\ decodedObject = NoResult
    /\ codecPc = "start" /\ damage = "none"

NextCodec ==
    \/ Encode
    \/ Truncate
    \/ Corrupt
    \/ Decode

SpecCodec == InitCodec /\ [][NextCodec]_vars

\* ---------------------------------------- L2Regularization: use
\* theta has a bias row and up to MaxWeights weight rows, one column per
\* class; lambda is even so that 0.5 * lambda * sum is an integer.
Lambdas == {0, 2, 4}
Elements == {Fin(-2), Fin(0), Fin(3), Infinite(1), NaN}
WeightFirsts == {-2, 0, 3}
BiasRows(cols) == {[j \in 1..cols |-> e] : e \in Elements}
WeightRows(cols) == {[j \in 1..cols |-> Fin(w + j - 1)] : w \in WeightFirsts}
Thetas ==
    UNION {{<<bias>> \o weights :
               bias \in BiasRows(cols),
               weights \in UNION {[1..n -> WeightRows(cols)] : n \in 0..MaxWeights}} :
           cols \in 1..MaxClasses}

\* regularization.compute(theta)
RegCompute ==
    /\ regTheta # <<>>
    /\ "compute" \notin regCalls
    /\ regPenalty' = L2Compute(regLambda, regTheta)
    /\ regCalls' = regCalls \cup {"compute"}
    /\ regFirstPenalty' = IF regFirstPenalty = <<>>
                          THEN <<L2Compute(regLambda, regTheta)>>
                          ELSE regFirstPenalty
    /\ UNCHANGED <<regLambda, regTheta, regGradient, codecVars, engineVars>>

\* regularization.gradient(theta)
RegGradient ==
    /\ regTheta # <<>>
    /\ "gradient" \notin regCalls
    /\ regGradient' = L2Gradient(regLambda, regTheta)
    /\ regCalls' = regCalls \cup {"gradient"}
    /\ UNCHANGED <<regLambda, regTheta, regPenalty, regFirstPenalty, codecVars,
                   engineVars>>

\* The caller hands in a theta that differs in the bias row only.
RegOtherBias ==
    /\ regFirstPenalty # <<>>
    /\ \E bias \in BiasRows(Len(regTheta[1])) :
          /\ bias # regTheta[1]
          /\ regTheta' = [regTheta EXCEPT ![1] = bias]
    /\ regCalls' = {}
    /\ UNCHANGED <<regLambda, regPenalty, regGradient, regFirstPenalty, codecVars,
                   engineVars>>

InitReg ==
    /\ EngineAtRest
    /\ CodecAtRest
    /\ StandaloneAtRest
    /\ regLambda \in Lambdas
    /\ regTheta \in Thetas
    /\ regPenalty = Fin(0) /\ regGradient = <<>> /\ regCalls = {}
    /\ regFirstPenalty = <<>>

NextReg ==
    \/ RegCompute
    \/ RegGradient
    \/ RegOtherBias

SpecReg == InitReg /\ [][NextReg]_vars

\* ------------------------------------ Trainer: several runs, actions
\* case 'train': trainer.train(...): this.model = model, then the run.
TrainerTrain ==
    /\ WorkerIdle
    /\ \E r \in RunIds :
          /\ ~Started(r)
          /\ \A q \in RunIds : q < r => Started(q)
          /\ runs' = [runs EXCEPT ![r] = [NoRun EXCEPT !.pc = "check"]]
          /\ model' = {r}
    /\ UNCHANGED <<stopsHandled, outsideRuns>>

\* Trainer.stop: this.model?.stop(); this.model?.dispose(true); this.model = null
TrainerStop ==
    /\ runs' = [r \in RunIds |->
                  IF r \in model THEN [runs[r] EXCEPT !.isStopped = TRUE] ELSE runs[r]]
    /\ model' = {}

\* case 'stop': trainer.stop()
WorkerStop ==
    /\ WorkerIdle
    /\ stopsHandled < MaxCommands
    /\ TrainerStop
    /\ stopsHandled' = stopsHandled + 1
    /\ UNCHANGED <<outsideRuns>>

\* iterator(): the loop ends when stopped or at maxIterations, otherwise
\* the iteration runs up to its await.
RunIterator ==
    /\ \E r \in RunIds :
          /\ runs[r].pc = "check"
          /\ runs' = [runs EXCEPT ![r].pc =
                        IF runs[r].iteration < MaxIterations /\ ~runs[r].isStopped
                        THEN "await" ELSE "returned"]
    /\ UNCHANGED <<model, stopsHandled, outsideRuns>>

\* The awaits of the iteration settle; the generator increments iteration.
RunContinues ==
    /\ \E r \in RunIds :
          /\ runs[r].pc = "await"
          /\ runs' = [runs EXCEPT ![r].pc = "check",
                                  ![r].iteration = runs[r].iteration + 1]
    /\ UNCHANGED <<model, stopsHandled, outsideRuns>>

\* Trainer.train after `await model.train(X, y)`: model.dispose(true),
\* this.model = null, onFinished().
RunEpilogue ==
    /\ \E r \in RunIds :
          /\ runs[r].pc = "returned"
          /\ runs' = [runs EXCEPT ![r].pc = "finished"]
    /\ model' = {}
    /\ UNCHANGED <<stopsHandled, outsideRuns>>

InitRuns ==
    /\ EngineAtRest
    /\ CodecAtRest
    /\ RegAtRest
    /\ OvrAtRest
    /\ HookAtRest
    /\ RunsAtRest

NextRuns ==
    \/ TrainerTrain
    \/ WorkerStop
    \/ RunIterator
    \/ RunContinues
    \/ RunEpilogue

SpecRuns == InitRuns /\ [][NextRuns]_vars

\* ------------------------------ OneVsRestLogisticRegressor.train
\* train() starts one optimize() call per class on this.optimizer, all in
\* progress together; the calls share the optimizer's flags and, with
\* StochasticGD, its index pool.  threadId is the label value of the class.
numThreads == 1
LabelOf(t) == t - 1
ThreadIds == DOMAIN threads
AllSuspended == isPaused /\ \A t \in ThreadIds : threads[t].pc = "wait"

\* Everything but the optimizer's flags, its pool and the calls.
outsideOvr == <<cfgVars, runVars, trainerVars, sent, callbacks, histCallVars,
                histRunVars, msgVars, estimatorVars, hyperVars, reportVars, descentVars,
                opt2Vars, pipelineVars, codecVars, regVars, runsVars, hookVars>>

\* iterator() of one call, from the top of the loop or after a poll timer.
ThreadIterator ==
    /\ \E t \in ThreadIds :
          /\ threads[t].pc \in {"check", "wait"}
          /\ IF threads[t].pc = "check" /\ threads[t].iteration >= maxIterations
             THEN /\ threads' = [threads EXCEPT ![t].pc = "returned"]
                  /\ UNCHANGED <<optVars, sinceStep>>
             ELSE IF isPaused /\ ~stepRequested
             THEN /\ threads' = [threads EXCEPT ![t].pc = "wait"]
                  /\ UNCHANGED <<optVars, sinceStep>>
             ELSE IF isStopped
             THEN /\ threads' = [threads EXCEPT ![t].pc = "returned"]
                  /\ UNCHANGED <<optVars, sinceStep>>
             ELSE /\ stepRequested' = FALSE
                  /\ threads' = [threads EXCEPT ![t].pc = "body"]
                  /\ sinceStep' = [sinceStep EXCEPT ![t] = @ + 1]
                  /\ UNCHANGED <<isPaused, isStopped>>
    /\ UNCHANGED <<poolVars, ovrListening, ovrCalls, poolWriter, foreignRead,
                   stepAll, callbackIds, outsideOvr>>

\* The loop body of one call up to `await loss.data()`; StochasticGD draws
\* its batch from the optimizer's pool.
ThreadBody ==
    /\ \E t \in ThreadIds :
          /\ threads[t].pc = "body"
          /\ threads' = [threads EXCEPT ![t].pc = "await"]
          /\ IF optimizerType = "sgd"
             THEN /\ createBatch
                  /\ foreignRead' = (foreignRead \/ poolWriter \notin {{}, {t}})
                  /\ poolWriter' = {t}
             ELSE UNCHANGED <<poolVars, foreignRead, poolWriter>>
    /\ UNCHANGED <<optVars, ovrListening, ovrCalls, stepAll, sinceStep, callbackIds,
                   outsideOvr>>

\* The callback event of the iteration and, when the Trainer listens, its
\* listener: lossHistoryArray[threadId].push(...) throws for a missing slot
\* and the call rejects.  Otherwise the generator increments iteration.
ThreadCallback ==
    /\ \E t \in ThreadIds :
          /\ threads[t].pc = "await"
          /\ callbackIds' = callbackIds \cup {LabelOf(t)}
          /\ threads' = IF ovrListening /\ LabelOf(t) >= numThreads
                        THEN [threads EXCEPT ![t].pc = "rejected"]
                        ELSE [threads EXCEPT ![t].pc = "check",
                                             ![t].iteration = @ + 1]
    /\ UNCHANGED <<optVars, poolVars, ovrListening, ovrCalls, poolWriter,
                   foreignRead, stepAll, sinceStep, outsideOvr>>

\* pause() / resume() / step() of the model, passed on to the optimizer.
OvrControl(name) ==
    /\ ovrCalls < MaxCommands
    /\ \A t \in ThreadIds : threads[t].pc \in {"wait", "await", "returned", "rejected"}
    /\ Api(name)
    /\ ovrCalls' = ovrCalls + 1
    /\ stepAll' = (name = "step" /\ AllSuspended)
    /\ sinceStep' = IF name = "step" /\ AllSuspended
                    THEN [t \in ThreadIds |-> 0] ELSE sinceStep
    /\ UNCHANGED <<threads, poolVars, ovrListening, poolWriter, foreignRead,
                   callbackIds, outsideOvr>>

OvrPause == OvrControl("pause")
OvrResume == OvrControl("resume")
OvrStep == OvrControl("step")

InitOvr ==
    /\ maxIterations \in 1..MaxIterations
    /\ optimizerType \in OptimizerTypes
    /\ sampleCount \in 1..MaxSamples
    /\ batchSize \in IF optimizerType = "sgd" THEN 1..sampleCount
                                               ELSE {DEFAULT_BATCH_SIZE}
    /\ PlainDescent
    /\ EngineConstructed
    /\ mailbox = <<>> /\ nextMsgNo = 0
    /\ CodecAtRest /\ RegAtRest /\ RunsAtRest /\ HookAtRest
    /\ \E k \in 1..MaxClasses :
          /\ threads = [t \in 1..k |-> [pc |-> "check", iteration |-> 0]]
          /\ sinceStep = [t \in 1..k |-> 0]
    /\ ovrListening \in BOOLEAN
    /\ ovrCalls = 0 /\ poolWriter = {} /\ foreignRead = FALSE /\ stepAll = FALSE
    /\ callbackIds = {}

NextOvr ==
    \/ ThreadIterator
    \/ ThreadBody
    \/ ThreadCallback
    \/ OvrPause
    \/ OvrResume
    \/ OvrStep

SpecOvr == InitOvr /\ [][NextOvr]_vars

\* ------------------------------------------------------- useModel: use
\* The buttons of Controls call the hook: Start Training is shown unless
\* the status is 'training' or 'paused', Stop in both of these, Pause in
\* 'training', Resume and Step in 'paused'.
HookCall ==
    /\ hookCalls < MaxCommands + 1
    /\ hookCalls' = hookCalls + 1

\* workerRef.current?.postMessage({type})
PostToWorker(type) ==
    workers' = [w \in WorkerIds |->
                  IF w \in workerRef
                  THEN [workers[w] EXCEPT !.inbox = Append(@, type)]
                  ELSE workers[w]]

\* train(): set the status, return if a worker is referenced, otherwise
\* create a worker, post `train` to it and keep it in workerRef.
HookTrain ==
    /\ HookCall
    /\ trainingStatus = "init"
    /\ trainingStatus' = "training"
    /\ IF workerRef # {}
       THEN UNCHANGED <<workerRef, workers>>
       ELSE \E w \in WorkerIds :
              /\ workers[w].state = "none"
              /\ \A v \in WorkerIds : v < w => workers[v].state # "none"
              /\ workers' = [workers EXCEPT ![w] = [NoWorker EXCEPT
                                !.state = "created", !.inbox = <<"train">>]]
              /\ workerRef' = {w}
    /\ UNCHANGED outsideHook

HookStop ==
    /\ HookCall
    /\ trainingStatus \in {"training", "paused"}
    /\ trainingStatus' = "init"
    /\ PostToWorker("stop")
    /\ UNCHANGED <<workerRef, outsideHook>>

HookPause ==
    /\ HookCall
    /\ trainingStatus = "training"
    /\ trainingStatus' = "paused"
    /\ PostToWorker("pause")
    /\ UNCHANGED <<workerRef, outsideHook>>

HookStep ==
    /\ HookCall
    /\ trainingStatus = "paused"
    /\ PostToWorker("step")
    /\ UNCHANGED <<trainingStatus, workerRef, outsideHook>>

HookResume ==
    /\ HookCall
    /\ trainingStatus = "paused"
    /\ trainingStatus' = "training"
    /\ PostToWorker("resume")
    /\ UNCHANGED <<workerRef, outsideHook>>

\* self.onmessage of a worker: train starts the run; stop, pause, resume
\* and step reach the optimizer while the Trainer has its model.
WorkerOnMessage ==
    /\ \E w \in WorkerIds :
          /\ LiveWorker(w)
          /\ workers[w].inbox # <<>>
          /\ LET type == Head(workers[w].inbox)
                 rest == [workers[w] EXCEPT !.inbox = Tail(@)]
                 has == workers[w].state = "running"
             IN  workers' = [workers EXCEPT ![w] =
                    CASE type = "train" -> [rest EXCEPT !.state = "running"]
                      [] type = "stop" /\ has ->
                            [rest EXCEPT !.state = "stopping", !.isPaused = FALSE]
                      [] type = "pause" /\ has -> [rest EXCEPT !.isPaused = TRUE]
                      [] type = "resume" /\ has -> [rest EXCEPT !.isPaused = FALSE]
                      [] type = "step" /\ has -> [rest EXCEPT !.stepRequested = TRUE]
                      [] OTHER -> rest]
    /\ UNCHANGED <<trainingStatus, workerRef, hookCalls, outsideHook>>

\* The run of a worker ends, after a stop or at its last iteration, and
\* the Trainer sends `finished`.
WorkerFinished ==
    /\ \E w \in WorkerIds :
          /\ \/ workers[w].state = "stopping"
             \/ /\ workers[w].state = "running"
                /\ ~workers[w].isPaused \/ workers[w].stepRequested
          /\ workers' = [workers EXCEPT ![w].state = "finished"]
    /\ UNCHANGED <<trainingStatus, workerRef, hookCalls, outsideHook>>

\* The `finished` listener: status 'init', terminate the worker, clear
\* workerRef.
HookFinished ==
    /\ \E w \in WorkerIds :
          /\ workers[w].state = "finished"
          /\ workers' = [workers EXCEPT ![w].state = "terminated"]
    /\ trainingStatus' = "init"
    /\ workerRef' = {}
    /\ UNCHANGED <<hookCalls, outsideHook>>

InitHook ==
    /\ EngineAtRest
    /\ CodecAtRest
    /\ RegAtRest
    /\ OvrAtRest
    /\ RunsAtRest
    /\ HookAtRest

NextHook ==
    \/ HookTrain
    \/ HookStop
    \/ HookPause
    \/ HookStep
    \/ HookResume
    \/ WorkerOnMessage
    \/ WorkerFinished
    \/ HookFinished

SpecHook == InitHook /\ [][NextHook]_vars

\* ------------------------------------------------------------ properties
Ended == pc \in {"returned", "rejected", "finished"}
Reports == SelectSeq(sent, LAMBDA e : e.type = "report")
Count(type) == Len(SelectSeq(sent, LAMBDA e : e.type = type))

\* C1: once stop() has been called, no further iteration begins, and theta
\* updates and callback events occur only for iterations already begun.
C1_StopIsTerminal ==
    [][ctl = "stopped" =>
         /\ begun' = begun
         /\ Range(thetaUpdates') \subseteq Range(begun)
         /\ Range(callbacks') \subseteq Range(begun)]_vars

\* stop() was called with a step request pending and iterations remaining;
\* the loop has ended without running them.
C1_Witness ==
    /\ ctl = "stopped" /\ pc = "returned" /\ stepRequested
    /\ Len(begun) >= 1 /\ Len(begun) < maxIterations /\ lossValue = "ok"

\* C2: once stop() has been called the loop terminates at its next
\* suspension check and optimize() returns, whatever pause / resume / step
\* calls come before or after it: a check made after stop() ends the loop.
C2_StopTerminates ==
    [][(ctl = "stopped" /\ (IteratorNext \/ PausedPoll)) => pc' = "returned"]_vars

\* A step() call reached the loop while it was suspended in Paused and had
\* not been stopped, and no call has been made since.
SteppedWhileSuspended ==
    lastCall = "step" /\ lastCallSuspended /\ ctl # "stopped"

\* C3: a step() received while the loop is suspended in Paused runs exactly
\* one more iteration and the loop then suspends again, still Paused: the
\* loop does not end while that step() is the latest call.
C3_StepThenSuspends == SteppedWhileSuspended => ~Ended

\* C3 as amended: after such a step() at most one iteration begins and the
\* optimizer stays Paused; the loop ends only because that one iteration
\* was the last (maxIterations reached, NaN loss, loss below tolerance, or
\* a batch that cannot be drawn); and unless another call comes first, the
\* iteration does run to its callback and the loop then waits or has ended.
C3_StepRunsOneIteration ==
    /\ [](SteppedWhileSuspended =>
            /\ beginsSinceCall <= 1
            /\ isPaused
            /\ (pc = "returned" =>
                   /\ beginsSinceCall = 1
                   /\ \/ Len(begun) = maxIterations
                      \/ lossValue = "nan"
                      \/ (lossValue = "belowTolerance" /\ optimizerType # "sgd"))
            /\ (pc = "rejected" => beginsSinceCall = 1 /\ ~BatchFits))
    /\ \A n \in 1..(MaxCommands + 1) :
          (SteppedWhileSuspended /\ calls = n /\ beginsSinceCall = 0)
            ~> \/ calls # n
               \/ /\ beginsSinceCall = 1
                  /\ pc \in {"wait", "returned", "rejected"}
                  /\ (pc # "rejected" => callbacks = begun)

\* The stepped iteration has run and the loop is suspended again.
C3_Witness ==
    /\ SteppedWhileSuspended /\ beginsSinceCall = 1 /\ pc = "wait"
    /\ Len(callbacks) >= 2 /\ steppedIteration

\* C4: after pause() while Running the iteration in progress completes (the
\* loop suspends only with every begun iteration called back) and no
\* iteration begins while the optimizer stays Paused with no step requested.
C4_PauseHoldsLoop ==
    /\ [][(ctl = "paused" /\ ~stepSinceBegin) => begun' = begun]_vars
    /\ [](pc = "wait" => callbacks = begun)

\* pause() was called while an iteration was running; the loop is suspended
\* with iterations remaining.
C4_Witness ==
    /\ ctl = "paused" /\ ~stepSinceBegin /\ pc = "wait"
    /\ lastCall = "pause" /\ ~lastCallSuspended
    /\ Len(begun) >= 1 /\ iteration < maxIterations

\* C5: however a run ends, exactly one `finished` event is sent for it and
\* nothing is sent after it.  Stated on the ended run: once no continuation
\* of the run is left, `finished` has been sent once and is the last event.
C5_FinishedOnEveryEnd ==
    pc \in {"rejected", "finished"} =>
        /\ Count("finished") = 1
        /\ sent[Len(sent)].type = "finished"

\* The Trainer has processed a stop command of the caller: this.model was
\* cleared before the epilogue of train().
StopProcessed == listening /\ ~trainerModel /\ pc # "finished"

\* C6: after the Trainer has processed a stop command no further report is
\* sent, not even by a callback listener already in progress.
C6_NoReportAfterStop ==
    [][StopProcessed => Count("report")' = Count("report")]_vars

\* C7: commands are handled in arrival order, and the flags the loop reads
\* are those the handled commands leave behind: the loop suspends only
\* when Paused, begins an iteration only when Running or stepped, and ends
\* early only when Stopped.
C7_CommandsInOrder ==
    /\ [][lastHandledNo' # lastHandledNo => lastHandledNo' = lastHandledNo + 1]_vars
    /\ [](\A i \in 1..Len(mailbox) : mailbox[i].no = lastHandledNo + i)
    /\ [](pc # "finished" =>
            /\ isStopped = (ctl = "stopped")
            /\ isPaused = (ctl = "paused")
            /\ stepRequested = stepSinceBegin)
    /\ [][begun' # begun =>
            ctl = "running" \/ (ctl = "paused" /\ stepSinceBegin)]_vars
    /\ [][((IteratorNext \/ PausedPoll) /\ pc' = "wait") => ctl = "paused"]_vars
    /\ [][((IteratorNext \/ PausedPoll) /\ pc' = "returned") =>
            ctl = "stopped" \/ iteration = maxIterations]_vars

\* Several commands have been handled, the last a pause, and the loop is
\* suspended by it while a later command is still in the channel.
C7_Witness ==
    /\ lastHandledNo >= 2 /\ lastCall = "pause" /\ pc = "wait"
    /\ mailbox # <<>> /\ Len(begun) >= 1

\* C8: a NaN loss makes the optimizer emit `error` for that iteration, no
\* further iteration begins, the run ends, and a finished run stays so.
C8_NaNEndsRun ==
    /\ [][lossValue = "nan" => begun' = begun]_vars
    /\ []((lossValue = "nan" /\ Ended) =>
            /\ Count("error") = 1
            /\ \E i \in 1..Len(sent) :
                  sent[i].type = "error" /\ sent[i].iteration = Len(begun) - 1)
    /\ [](lossValue # "nan" => Count("error") = 0)
    /\ [][pc = "finished" => pc' = "finished"]_vars

\* A run ended by a NaN loss before maxIterations, with its error sent.
C8_Witness ==
    /\ lossValue = "nan" /\ pc = "finished" /\ Count("error") = 1
    /\ Len(begun) >= 2 /\ Len(begun) < maxIterations

\* C9: the indices handed to the update step and to callback events are
\* 0, 1, ..., k-1 with k <= maxIterations, whatever the calls.
C9_IndicesInOrder ==
    /\ begun = Iota(Len(begun))
    /\ thetaUpdates = Iota(Len(thetaUpdates))
    /\ callbacks = Iota(Len(callbacks))
    /\ Len(callbacks) <= Len(thetaUpdates)
    /\ Len(thetaUpdates) <= Len(begun)
    /\ Len(begun) <= maxIterations

\* A run that was paused, stepped and resumed has run all its iterations.
C9_Witness ==
    /\ pc = "returned" /\ Len(callbacks) = maxIterations /\ maxIterations >= 3
    /\ calls >= 3 /\ steppedIteration /\ ctl = "running"

C12_OversizedBatchRejected ==
    /\ [][(pc = "body" /\ optimizerType = "sgd" /\ batchSize > sampleCount
             /\ pc' # pc) =>
            (pc' = "rejected" /\ UNCHANGED <<poolVars, thetaUpdates>>)]_vars
    /\ [](\A k \in 1..Len(drawn) : Len(drawn[k]) = batchSize)
    /\ [](refills > 0 => Len(batch) = batchSize)
    /\ [](pc = "rejected" =>
            /\ optimizerType = "sgd" /\ batchSize > sampleCount
            /\ refills = 0 /\ batch = <<>> /\ thetaUpdates = <<>>)

\* optimize() of a StochasticGD whose batch size is one above the sample
\* count was rejected in its first iteration.
C12_Witness ==
    /\ pc = "rejected" /\ optimizerType = "sgd" /\ batchSize = sampleCount + 1
    /\ begun = <<0>> /\ callbacks = <<>>

IsPermutation(pool, n) == Len(pool) = n /\ Range(pool) = 0..(n - 1)

AllDefined(object) == \A k \in 1..Len(object) : object[k].value.kind # "undefined"

NumbersOf(value) ==
    CASE value.kind = "number" -> {value.v}
      [] value.kind = "arrays" -> Range(flat(value.v))
      [] OTHER -> Range(value.v)

\* Every number of the object is a 32-bit float.
AllFloat32(object) ==
    \A k \in 1..Len(object) : \A n \in NumbersOf(object[k].value) : Fround(n) = n

\* C14: decode(encode(obj)) equals obj for every object whose values are
\* numbers, 1-D arrays or 2-D arrays, empty arrays included: the same keys
\* in the same order, the same shapes, the same numbers.
C14_RoundTrip ==
    (codecPc = "decoded" /\ damage = "none" /\ AllDefined(data)) =>
        decodedObject = Returned(data)

\* C14 as amended: the round trip returns the same keys in the same order
\* and the same shapes, and it is the identity on objects whose numbers are
\* 32-bit floats.
C14_RoundTripOfFloats ==
    (codecPc = "decoded" /\ damage = "none" /\ AllDefined(data)) =>
        /\ decodedObject.returned
        /\ Len(decodedObject.object) = Len(data)
        /\ \A k \in 1..Len(data) :
              /\ decodedObject.object[k].key = data[k].key
              /\ decodedObject.object[k].value.kind = data[k].value.kind
              /\ data[k].value.kind # "number" =>
                    Len(decodedObject.object[k].value.v) = Len(data[k].value.v)
              /\ data[k].value.kind = "arrays" =>
                    \A i \in 1..Len(data[k].value.v) :
                       Len(decodedObject.object[k].value.v[i]) = Len(data[k].value.v[i])
        /\ (AllFloat32(data) => decodedObject = Returned(data))

\* An object with an empty array and a 2-D array of two rows, all numbers
\* 32-bit floats, came back from the round trip.
C14_Witness ==
    /\ codecPc = "decoded" /\ damage = "none" /\ Len(data) = 2
    /\ data[1].value.kind = "empty" /\ data[2].value.kind = "arrays"
    /\ Len(data[2].value.v) = 2 /\ Len(data[2].value.v[1]) = 2
    /\ AllFloat32(data) /\ decodedObject = Returned(data)

\* The entries from `offset` on, `left` of them announced: some key or value
\* segment, or the length fields before it, reaches past the end of the
\* buffer.  Entries whose length fields are negative (other than the shape
\* sentinel) are a different defect and end the walk.
RECURSIVE SegmentOverruns(_, _, _)
SegmentOverruns(buffer, offset, left) ==
    IF left <= 0 THEN FALSE
    ELSE IF offset + 1 > Len(buffer) THEN TRUE
    ELSE IF buffer[offset + 1] < 0 THEN FALSE
    ELSE LET dimsAt == offset + 1 + buffer[offset + 1]
         IN  IF dimsAt + 2 > Len(buffer) THEN TRUE
             ELSE LET cols == buffer[dimsAt + 1]
                      rows == buffer[dimsAt + 2]
                      size == IF cols = -1 THEN 1
                              ELSE IF rows = -1 THEN cols ELSE cols * rows
                  IN  IF cols < -1 \/ rows < -1 \/ (cols = -1 /\ rows # -1)
                      THEN FALSE
                      ELSE IF dimsAt + 2 + size > Len(buffer) THEN TRUE
                      ELSE SegmentOverruns(buffer, dimsAt + 2 + size, left - 1)

\* An empty buffer, a negative entry count, or a segment that does not fit.
Malformed(buffer) ==
    \/ buffer = <<>>
    \/ buffer[1] < 0
    \/ SegmentOverruns(buffer, 1, buffer[1])

\* C15: decode of an empty buffer, of a buffer with a negative entry count,
\* or of a buffer in which a key or value segment does not fit the remaining
\* length raises an error and returns no object; and a buffer cut short is
\* always such a buffer.
C15_MalformedRaises ==
    /\ (codecPc = "decoded" /\ Malformed(encodedData)) => decodedObject = Threw
    /\ (codecPc = "decoded" /\ damage = "truncated") => decodedObject = Threw

\* A buffer of two entries that lost its tail inside the second entry's
\* value was refused.
C15_Witness ==
    /\ codecPc = "decoded" /\ damage = "truncated" /\ decodedObject = Threw
    /\ Len(data) = 2 /\ data[2].value.kind = "arrays"
    /\ Len(encodedData) = Len(encode(data)) - 1

\* C16: predict or evaluate called without a theta argument on a model
\* whose train() has not completed throws the "not trained" error and
\* returns no output.
C16_UntrainedModelRefuses ==
    (query.op # "none" /\ ~query.explicitTheta /\ ~query.trained) =>
        (query.threw /\ ~query.output)

\* evaluate was called without theta while the second iteration of the
\* model's training was running, and threw.
C16_Witness ==
    /\ query.op = "evaluate" /\ ~query.explicitTheta /\ ~query.trained
    /\ query.threw /\ pc = "lossData" /\ Len(begun) = 2 /\ modelTheta = "null"

\* C17: for every theta and lambda, L2Regularization.gradient(theta) is
\* zero in row 0, and L2Regularization.compute(theta) is the same for every
\* theta that differs in row 0 only.
C17_BiasRowNotPenalized ==
    /\ "gradient" \in regCalls =>
          \A j \in 1..Len(regGradient[1]) : regGradient[1][j] = Fin(0)
    /\ "compute" \in regCalls => regPenalty = regFirstPenalty[1]

SameSigned ==
    \/ \A k \in 1..Len(gradients) : gradients[k] > 0
    \/ \A k \in 1..Len(gradients) : gradients[k] < 0

\* The velocity after iteration k, 0 before the first.
VelocityAfter(k) == IF k = 0 THEN 0 ELSE velocities[k]

\* C19 as stated: in MomentumGD, while the gradients all have the same
\* sign, |velocity| after each iteration is greater than after the previous.
C19_VelocityGrows ==
    (optimizerType = "momentum" /\ SameSigned) =>
        \A k \in 1..Len(velocities) :
            Abs(VelocityAfter(k)) > Abs(VelocityAfter(k - 1))

\* C19 amended: in MomentumGD, while the gradients all have the same sign,
\* the velocity has the sign opposite to theirs, and |velocity| after an
\* iteration is greater than after the previous one exactly when
\* alfa * |gradient| exceeds (1 - beta) * |previous velocity|.
C19_VelocityGrowsWhileStepsDominate ==
    (optimizerType = "momentum" /\ SameSigned) =>
        \A k \in 1..Len(velocities) :
            /\ (gradients[k] > 0) = (VelocityAfter(k) < 0)
            /\ (gradients[k] < 0) = (VelocityAfter(k) > 0)
            /\ Abs(VelocityAfter(k)) > Abs(VelocityAfter(k - 1))
               <=> Times(Abs(gradients[k]), learningRate)
                   > Abs(VelocityAfter(k - 1))
                     - Times(Abs(VelocityAfter(k - 1)), beta)

C19_Witness ==
    /\ optimizerType = "momentum" /\ SameSigned
    /\ gradientFunction.kind = "constant"
    /\ Len(velocities) >= 3
    /\ Abs(velocities[3]) > Abs(velocities[2])
    /\ Abs(velocities[2]) > Abs(velocities[1])

\* C20: from construction or the last dispose() on, the transformed result
\* of a buffer is computed at most once, every buffer used is in the cache,
\* and once dispose() has been called the cache holds no entries.
C20_ComputedOnceAndEmptyAfterDispose ==
    /\ \A id \in Buffers : computed[id] <= 1
    /\ \A id \in Buffers : computed[id] = 1 <=> id \in DOMAIN cachedProcessedData
    /\ disposed => DOMAIN cachedProcessedData = {}

\* C21: a step() called while Running has no lasting effect: an iteration
\* that begins while Paused was asked for by a step() called while Paused.
C21_RunningStepHasNoEffect ==
    [][(begun' # begun /\ ctl = "paused") => stepWhilePaused]_vars

\* C22: a stop command handled by the worker reaches the optimizer of every
\* run that has started and has not sent `finished`.
C22_StopReachesEveryRun ==
    [][stopsHandled' # stopsHandled =>
         \A r \in RunIds : Live(r) => runs'[r].isStopped]_vars

\* C23: the index pool and its pointer belong to one optimize() call: no
\* call reads pool or pointer state that another call wrote.
C23_PoolBelongsToOneCall == ~foreignRead

\* C24: after one step() issued while every per-class call is suspended in
\* Paused, when all of them are suspended again and the request is used up,
\* each call has begun exactly one iteration.
C24_StepAdvancesEveryCall ==
    (stepAll /\ AllSuspended /\ ~stepRequested) =>
        \A t \in ThreadIds : sinceStep[t] = 1

\* C25: the threadId of every callback event is the index of a slot of the
\* Trainer's per-run arrays.
C25_ThreadIdHasSlot ==
    ovrListening => \A id \in callbackIds : id \in 0..(numThreads - 1)

\* C26: k step commands received while the loop is suspended in Paused, and
\* no other command, result in k executed iterations: when the loop is
\* suspended again with no request pending, it has begun as many iterations
\* as it received step commands.
C26_EachStepItsIteration ==
    (ctl = "paused" /\ pc = "wait" /\ ~stepRequested /\ stepTally.only)
        => stepTally.begun = stepTally.received

\* C27: theta is modified only by the optimizer's update step.  While the
\* listeners of the callback event of iteration i are in progress theta does
\* not change and no iteration begins, and the theta of report i is theta
\* after update i.
C27_ReportHasThetaOfItsUpdate ==
    [][/\ (pc = "cbAwait" => optTheta' = optTheta /\ begun' = begun)
       /\ (reportedThetas' # reportedThetas =>
              /\ pc = "cbAwait"
              /\ Len(thetas) = iteration + 1
              /\ reportedThetas' = Append(reportedThetas, thetas[iteration + 1]))
      ]_vars

\* Two reports sent, of two different thetas, with a command handled while
\* the listener of the second was in progress.
C27_Witness ==
    /\ Len(reportedThetas) >= 2
    /\ reportedThetas[1] # reportedThetas[2]
    /\ pc = "afterCb" /\ iteration = 1
    /\ lastHandledNo >= 1 /\ lastCall = "pause" /\ beginsSinceCall = 0

\* C28: a train request is never silently dropped.  Whenever train() sets
\* the training status to 'training', a `train` message is posted to a live
\* worker that workerRef holds from then on.
C28_TrainIsPosted ==
    [][(trainingStatus = "init" /\ trainingStatus' = "training") =>
          \E w \in WorkerIds :
             /\ workerRef' = {w}
             /\ workers[w].state = "none"
             /\ workers'[w].state = "created"
             /\ workers'[w].inbox = <<"train">>]_vars

\* C29: the buffers of the model are released exactly once per run, and only
\* after the run's last iteration and report: every dispose() of the model
\* is the first one, and is made when optimize() has returned.
C29_DisposedOnceAfterTheRun ==
    [][disposals' # disposals => (disposals = 0 /\ pc = "returned")]_vars

\* The (iteration, learning rate, theta) of iterations k to n - 1 of a run
\* of BatchGD or MomentumGD that is never suspended, from the theta and the
\* velocity it has before iteration k.
RECURSIVE Uninterrupted(_, _, _, _)
Uninterrupted(k, n, thetaNow, velocityNow) ==
    IF k >= n THEN <<>>
    ELSE LET alfa == next(k)
             gradient == Gradient(gradientFunction, range(sampleCount), thetaNow)
             nextVelocity == IF optimizerType = "momentum"
                             THEN NextVelocity(velocityNow, gradient, alfa)
                             ELSE velocityNow
             nextTheta == IF optimizerType = "momentum"
                          THEN thetaNow + nextVelocity
                          ELSE DescentStep(thetaNow, gradient, alfa)
         IN  <<[iteration |-> k, alfa |-> alfa, theta |-> nextTheta]>>
                \o Uninterrupted(k + 1, n, nextTheta, nextVelocity)

\* What the run has produced so far.
Produced ==
    [k \in 1..Len(thetas) |->
        [iteration |-> thetaUpdates[k], alfa |-> alfas[k], theta |-> thetas[k]]]

\* C30: pausing, stepping and resuming change only when iterations run.
\* Under any interleaving of pause / resume / step calls the (iteration
\* index, learning rate, theta) values a Batch or Momentum run has produced
\* are those of an uninterrupted run over as many iterations.
C30_InterruptionsKeepResults ==
    /\ Len(thetaUpdates) = Len(thetas) /\ Len(alfas) = Len(thetas)
    /\ Produced = Uninterrupted(0, Len(thetas), initTheta, 0)

\* A run with a decaying learning rate that was paused, stepped into its
\* second iteration and resumed during it.
C30_Witness ==
    /\ decayP = 1
    /\ Len(thetas) = 2 /\ thetas[1] # thetas[2]
    /\ pc = "lossData" /\ steppedIteration
    /\ lastCall = "resume" /\ calls = 3

====
